---- MODULE Spec2Model ----
(***************************************************************************)
(* Model of src/emc/motion/simple_tp.c: the per-cycle motion limiter       *)
(* simple_tp_update() and the simple_tp_t channel state it mutates.        *)
(*                                                                         *)
(* Units.  Time is measured in control periods (fperiod = 1) and position  *)
(* in a unit fine enough that every configured value is an integer, so     *)
(* velocities are position units per period and max_acc is position units  *)
(* per period squared.  On that grid every committed position and velocity *)
(* is an integer and the arithmetic of the C code is exact.  The three     *)
(* projections vel_0_pos, vel_match_in_pos and vel_match_out_pos divide by *)
(* max_acc; the model carries them multiplied by 2*max_acc (Scaled) and    *)
(* scales the other side of each comparison by the same positive factor.   *)
(***************************************************************************)
EXTENDS Integers, Sequences, FiniteSets, TLC

\* ---------------------------------------------------------------- bounds
PosLim == 3        \* position limits are min_pos = -PosLim, max_pos in 1..PosLim
CmdLim == 4        \* the host commands pos_cmd in -CmdLim..CmdLim
AccLim == 2        \* max_acc ranges over 1..AccLim
VelLim == 3        \* max_vel ranges over 0..VelLim

\* ------------------------------------------------------------- libm
fabs(x) == IF x < 0 THEN -x ELSE x
fmax(x, y) == IF x >= y THEN x ELSE y
fmin(x, y) == IF x <= y THEN x ELSE y

\* the control period handed to simple_tp_update (one period per call)
fperiod == 1

\* tp   : the simple_tp_t record of the channel, as the last call left it
\* rule : the exit that call took
\* hold : the host has stopped changing the command (used by SpecSettle)
VARIABLES tp, rule, hold

vars == <<tp, rule, hold>>

\* ------------------------------------------------- locals of the update
\* Input velocity
in_vel(t) == (t.pos_cmd - t.in_pos_old) \div fperiod
\* Most negative/positive velocity reachable in one period
min_vel(t) == fmax(t.out_vel_old - t.max_acc * fperiod, -t.max_vel)
\* max_vel as a build that forgets the clip to tp->max_vel would compute it
max_vel_unclipped(t) == t.out_vel_old + t.max_acc * fperiod
max_vel(t) == fmin(t.out_vel_old + t.max_acc * fperiod, t.max_vel)
\* Most negative/positive position reachable in one period
min_pos(t) == t.curr_pos + min_vel(t) * fperiod
max_pos(t) == t.curr_pos + max_vel(t) * fperiod
\* Direction (sign) of output movement, and relative to input movement
out_dir(t) == IF t.out_vel_old < 0 THEN -1 ELSE 1
out_dir_rel(t) == IF t.out_vel_old - in_vel(t) < 0 THEN -1 ELSE 1

\* ---- double-width products.  The projections multiply two values that
\* each fit the model's integers but whose product need not (a command of
\* 1000000 position units seen from rest gives in_vel * vel_match_time =
\* 10^12); a double holds such a product exactly, so the model carries it
\* as <<h, l>> = h * Base + l with 0 <= l < Base.
Base == 1000000
Half == 1000
Norm(h, l) == <<h + (l \div Base), l % Base>>
WAdd(x, y) == Norm(x[1] + y[1], x[2] + y[2])
WMul(x, y) ==
    IF fabs(x) < Half /\ fabs(y) < Half
    THEN Norm(0, x * y)
    ELSE LET xh == x \div Half  xl == x % Half
             yh == y \div Half  yl == y % Half
             m  == xh * yl + xl * yh
         IN  Norm(xh * yh + (m \div Half), (m % Half) * Half + xl * yl)
WLt(x, y) == x[1] < y[1] \/ (x[1] = y[1] /\ x[2] < y[2])
WLe(x, y) == ~WLt(y, x)

\* factor carried by the three projections below
Scaled(t, x) == WMul(2 * t.max_acc, x)
\* vel_0_time = fabs(out_vel_old / max_acc), carried times max_acc
vel_0_time(t) == fabs(t.out_vel_old)
\* the stop position as a build that tests the present position against the
\* limit, without the braking distance, would compute it
vel_0_pos_here(t) == Scaled(t, t.curr_pos)
\* position after stop, times 2*max_acc
vel_0_pos(t) ==
    WAdd(WAdd(Scaled(t, t.curr_pos),
              WMul(2 * t.out_vel_old, vel_0_time(t) + t.max_acc * fperiod)),
         WMul((-out_dir(t)) * vel_0_time(t), vel_0_time(t)))
\* vel_match_time in a build that never lets it fall under one period
vel_match_time_floor(t) ==
    fmax(fabs(t.out_vel_old - in_vel(t)), t.max_acc * fperiod)
\* vel_match_time = fabs(out_vel_old - in_vel) / max_acc, carried times max_acc
vel_match_time(t) == fabs(t.out_vel_old - in_vel(t))
\* input position after velocity match, times 2*max_acc
vel_match_in_pos(t) ==
    WAdd(Scaled(t, t.pos_cmd), WMul(2 * in_vel(t), vel_match_time(t)))
\* output position after velocity match, times 2*max_acc
vel_match_out_pos(t) ==
    WAdd(WAdd(Scaled(t, t.curr_pos),
              WMul(2 * t.out_vel_old, vel_match_time(t) + t.max_acc * fperiod)),
         WMul((-out_dir_rel(t)) * vel_match_time(t), vel_match_time(t)))

\* TINY_DP(max_acc, period) = max_acc * period * period * 0.001, carried
\* times 1000
TINY_DP(acc, period) == acc * period * period
\* the settle test with the gap measured to the command clamped into the
\* position limits
Settled_clamped(t) ==
    1000 * fabs(t.curr_pos - fmax(t.min_pos, fmin(t.pos_cmd, t.max_pos)))
        < fabs(TINY_DP(t.max_acc, fperiod))
\* fabs(curr_pos - pos_cmd) < tiny_dp
Settled(t) ==
    1000 * fabs(t.curr_pos - t.pos_cmd) < fabs(TINY_DP(t.max_acc, fperiod))

\* VALID_NEXT with the velocity window taken open instead of closed
VALID_NEXT_open(t, pos, vel) ==
    /\ pos <= max_pos(t)
    /\ pos >= min_pos(t)
    /\ vel < max_vel(t)
    /\ vel > min_vel(t)
VALID_NEXT(t, pos, vel) ==
    /\ pos <= max_pos(t)
    /\ pos >= min_pos(t)
    /\ vel <= max_vel(t)
    /\ vel >= min_vel(t)

\* the rule 1 guard without its exception for a limit that can be held
StopOvershootMax_always(t, v0) == WLe(Scaled(t, t.max_pos), v0)
\* rule 1 / rule 2 guards: the stop position v0 (vel_0_pos) is at or past
\* the limit and the limit itself cannot be the next state
StopOvershootMax(t, v0) ==
    WLe(Scaled(t, t.max_pos), v0) /\ ~VALID_NEXT(t, t.max_pos, 0)
StopOvershootMin(t, v0) ==
    WLe(v0, Scaled(t, t.min_pos)) /\ ~VALID_NEXT(t, t.min_pos, 0)

\* the flag test of the two overshooting branches, and the same test in a
\* build that never looks at the flag
disallow_backoff_ignored(t) == FALSE
disallow_backoff(t) == t.disallow_backoff

\* t is the state the macro is expanded in (active already set at line 58)
SET_NEXT_STATE(t, out_pos, out_vel, in_pos) ==
    LET c == [t EXCEPT !.curr_pos = out_pos,
                       !.out_vel_old = out_vel,
                       !.curr_vel = out_vel,
                       !.in_pos_old = in_pos]
    IN  IF Settled(c) THEN [c EXCEPT !.active = FALSE] ELSE c

Exit(label, t) == [rule |-> label, tp |-> t]

\* the rule 4 guard with the command required strictly above max_pos
HeadingMax_strict(t, vmi, vmo) ==
    \/ WLt(Scaled(t, t.max_pos), vmi)
    \/ /\ t.pos_cmd > t.max_pos
       /\ WLt(vmo, vmi)
\* rule 4 guard: input above max limit, or at/above it and not yet matched
\* (vmi, vmo: vel_match_in_pos, vel_match_out_pos)
HeadingMax(t, vmi, vmo) ==
    \/ WLt(Scaled(t, t.max_pos), vmi)
    \/ /\ t.pos_cmd >= t.max_pos
       /\ WLt(vmo, vmi)
\* the rule 3 guard in a build that tests the max side first
HeadingMin_after_max(t, vmi, vmo) ==
    /\ ~HeadingMax(t, vmi, vmo)
    /\ \/ WLt(vmi, Scaled(t, t.min_pos))
       \/ /\ t.pos_cmd <= t.min_pos
          /\ WLt(vmi, vmo)
\* rule 3 guard: input below min limit, or at/below it and not yet matched
HeadingMin(t, vmi, vmo) ==
    \/ WLt(vmi, Scaled(t, t.min_pos))
    \/ /\ t.pos_cmd <= t.min_pos
       /\ WLt(vmi, vmo)

\* the rule cascade (lines 95-146) on the locals computed before it: v0,
\* vmi, vmo are vel_0_pos, vel_match_in_pos, vel_match_out_pos; t has
\* active = TRUE
CascadeOn(t, v0, vmi, vmo) ==
    IF StopOvershootMax(t, v0)
    THEN Exit("r1", SET_NEXT_STATE(t, min_pos(t), min_vel(t), t.pos_cmd))
    ELSE IF StopOvershootMin(t, v0)
    THEN Exit("r2", SET_NEXT_STATE(t, max_pos(t), max_vel(t), t.pos_cmd))
    ELSE IF HeadingMin(t, vmi, vmo)
    THEN IF VALID_NEXT(t, t.min_pos, 0)
         THEN Exit("r3park", SET_NEXT_STATE(t, t.min_pos, 0, t.pos_cmd))
         ELSE Exit("r3head", SET_NEXT_STATE(t, min_pos(t), min_vel(t), t.pos_cmd))
    ELSE IF HeadingMax(t, vmi, vmo)
    THEN IF VALID_NEXT(t, t.max_pos, 0)
         THEN Exit("r4park", SET_NEXT_STATE(t, t.max_pos, 0, t.pos_cmd))
         ELSE Exit("r4head", SET_NEXT_STATE(t, max_pos(t), max_vel(t), t.pos_cmd))
    ELSE IF VALID_NEXT(t, t.pos_cmd, in_vel(t))
    THEN Exit("r5", SET_NEXT_STATE(t, t.pos_cmd, in_vel(t), t.pos_cmd))
    ELSE IF t.curr_pos > t.pos_cmd
    THEN IF WLt(vmi, vmo)
         THEN Exit("r6close", SET_NEXT_STATE(t, min_pos(t), min_vel(t), t.pos_cmd))
         ELSE IF disallow_backoff(t)
              THEN Exit("r6hold", SET_NEXT_STATE(t, min_pos(t), min_vel(t), t.pos_cmd))
              ELSE Exit("r6back", SET_NEXT_STATE(t, max_pos(t), max_vel(t), t.pos_cmd))
    ELSE IF t.curr_pos < t.pos_cmd
    THEN IF WLt(vmo, vmi)
         THEN Exit("r7close", SET_NEXT_STATE(t, max_pos(t), max_vel(t), t.pos_cmd))
         ELSE IF disallow_backoff(t)
              THEN Exit("r7hold", SET_NEXT_STATE(t, max_pos(t), max_vel(t), t.pos_cmd))
              ELSE Exit("r7back", SET_NEXT_STATE(t, min_pos(t), min_vel(t), t.pos_cmd))
    ELSE Exit("fallthrough", t)

\* the body of an enabled call after line 63: the locals, then the cascade
Cascade(t) ==
    CascadeOn(t, vel_0_pos(t), vel_match_in_pos(t), vel_match_out_pos(t))

\* simple_tp_update without the overwrite of pos_cmd on the disabled path
simple_tp_update_keep_cmd(t0) ==
    LET t == [t0 EXCEPT !.active = TRUE]
    IN  IF ~t.enable
        THEN Exit("disabled", SET_NEXT_STATE(t, t.curr_pos, 0, t.curr_pos))
        ELSE Cascade(t)
\* simple_tp_update with the overwrite of pos_cmd hoisted out of the
\* disabled branch
simple_tp_update_sync_cmd(t0) ==
    LET t == [t0 EXCEPT !.active = TRUE, !.pos_cmd = t0.curr_pos]
    IN  IF ~t.enable
        THEN Exit("disabled", SET_NEXT_STATE(t, t.curr_pos, 0, t.curr_pos))
        ELSE Cascade(t)
\* void simple_tp_update(simple_tp_t *tp, double fperiod)
simple_tp_update(t0) ==
    LET t == [t0 EXCEPT !.active = TRUE]
    IN  IF ~t.enable
        THEN LET d == [t EXCEPT !.pos_cmd = t.curr_pos]
             IN  Exit("disabled", SET_NEXT_STATE(d, d.curr_pos, 0, d.curr_pos))
        ELSE Cascade(t)

\* ------------------------------------------------------------ the host
\* channel at rest inside its bounds, as the host initialises it
Rest(pos, lo, hi, v, a, dab) ==
    [enable |-> TRUE, pos_cmd |-> pos, curr_pos |-> pos, curr_vel |-> 0,
     in_pos_old |-> pos, out_vel_old |-> 0, min_pos |-> lo, max_pos |-> hi,
     max_vel |-> v, max_acc |-> a, disallow_backoff |-> dab, active |-> FALSE]

Init ==
    /\ \E hi \in 1..PosLim, pos \in -PosLim..PosLim, v \in 0..VelLim,
          a \in 1..AccLim, dab \in BOOLEAN :
          /\ pos <= hi
          /\ tp = Rest(pos, -PosLim, hi, v, a, dab)
    /\ rule = "init"
    /\ hold = FALSE

\* the commands the host may write
Cmds == -CmdLim..CmdLim

\* the record after the host has written its inputs pos_cmd and enable
Written(t, c, en) == [t EXCEPT !.pos_cmd = c, !.enable = en]

\* one control cycle: the host writes its inputs, then calls
\* simple_tp_update(tp, fperiod)
Call(c, en) ==
    LET r == simple_tp_update(Written(tp, c, en))
    IN  /\ tp' = r.tp
        /\ rule' = r.rule

EnabledCall == \E c \in Cmds : Call(c, TRUE) /\ UNCHANGED hold
DisabledCall == \E c \in Cmds : Call(c, FALSE) /\ UNCHANGED hold

Next ==
    \/ EnabledCall
    \/ DisabledCall

Spec == Init /\ [][Next]_vars

\* only enabled cycles
SpecEnabled == Init /\ [][EnabledCall]_vars

\* ---- the host stops changing the command
\* the host picks an in-bounds command while the channel is inside its
\* position and velocity limits, and holds it from this cycle on
HoldCmd ==
    /\ ~hold
    /\ tp.max_vel > 0
    /\ tp.min_pos <= tp.curr_pos /\ tp.curr_pos <= tp.max_pos
    /\ fabs(tp.out_vel_old) <= tp.max_vel
    /\ \E c \in Cmds :
          /\ tp.min_pos <= c /\ c <= tp.max_pos
          /\ Call(c, TRUE)
    /\ hold' = TRUE

\* a cycle with the held command
HeldCall ==
    /\ hold
    /\ \E c \in {tp.pos_cmd} : Call(c, TRUE)
    /\ UNCHANGED hold

FreeCall == ~hold /\ Next

NextSettle ==
    \/ FreeCall
    \/ HoldCmd
    \/ HeldCall

\* the scheduler calls the update every period
SpecSettle == Init /\ [][NextSettle]_vars /\ WF_vars(HeldCall)

\* ---- the concrete scenario: max_vel = 10, max_acc = 100, min_pos = -50,
\* max_pos = 50, period = 0.001, at rest at 0, pos_cmd = 100 held.  In
\* periods and in position units of 0.0001: max_acc = 100 * 0.001^2 / 0.0001
\* = 1, max_vel = 10 * 0.001 / 0.0001 = 100, limits -500000 and 500000,
\* pos_cmd = 1000000.
InitScenario ==
    /\ \E dab \in BOOLEAN : tp = Rest(0, -500000, 500000, 100, 1, dab)
    /\ rule = "init"
    /\ hold = FALSE

ScenarioCall == Call(1000000, TRUE) /\ UNCHANGED hold

SpecScenario == InitScenario /\ [][ScenarioCall]_vars /\ WF_vars(ScenarioCall)

\* ---- the approach scenario: the same limits, the channel tracking a
\* command at full speed (curr_vel = 10) towards max_pos = 50 and now at
\* curr_pos = 49.95, that is 499500 and 100 in the scenario's units.  The
\* host may write any of ApproachCmds each cycle; the cycles are followed
\* while the channel still moves towards the limit.
ApproachCmds == {-1000000, 0, 499500, 499600, 500000, 1000000}

InitApproach ==
    /\ \E dab \in BOOLEAN :
          tp = [Rest(499500, -500000, 500000, 100, 1, dab)
                    EXCEPT !.curr_vel = 100, !.out_vel_old = 100]
    /\ rule = "init"
    /\ hold = FALSE

ApproachCall ==
    /\ tp.out_vel_old > 0
    /\ \E c \in ApproachCmds : Call(c, TRUE)
    /\ UNCHANGED hold

SpecApproach == InitApproach /\ [][ApproachCall]_vars

\* ------------------------------------------------------------- properties
\* a call has returned
Called == rule # "init"
MismatchRules == {"r6close", "r6hold", "r6back", "r7close", "r7hold", "r7back"}

\* C1: starting at rest inside the bounds, after every call of any sequence
\* of enabled updates with an arbitrary command each cycle, the position is
\* inside [min_pos, max_pos].
C1_PositionBound ==
    Called => (tp.min_pos <= tp.curr_pos /\ tp.curr_pos <= tp.max_pos)

\* C2: after every call, enabled or disabled, whatever the commands were,
\* the magnitude of curr_vel is at most max_vel.
C2_VelocityBound ==
    Called => fabs(tp.curr_vel) <= tp.max_vel

\* a call has committed the full velocity max_vel, which the acceleration
\* steps from rest reach only through the clip
C2_Witness ==
    /\ Called
    /\ tp.enable
    /\ tp.max_vel > 0
    /\ tp.max_vel % tp.max_acc # 0
    /\ tp.curr_vel = tp.max_vel
    /\ rule \in {"r4head", "r7close"}

\* C3: every enabled call from a state with |out_vel_old| <= max_vel leaves
\* a velocity that differs from the previous output velocity by at most
\* max_acc * period and a position inside the reachable window
\* [curr_pos + min_vel * period, curr_pos + max_vel * period] of the
\* pre-call state.
ReachableAfter(t) ==
    LET r == simple_tp_update(t).tp
    IN  /\ fabs(r.curr_vel - t.out_vel_old) <= t.max_acc * fperiod
        /\ min_pos(t) <= r.curr_pos
        /\ r.curr_pos <= max_pos(t)
C3_Reachable ==
    \A c \in Cmds :
        fabs(tp.out_vel_old) <= tp.max_vel => ReachableAfter(Written(tp, c, TRUE))

\* C4: a disabled call, from any state and with any command, leaves curr_pos
\* unchanged, sets curr_vel and out_vel_old to 0 and pos_cmd and in_pos_old
\* to curr_pos, takes no cascade rule, and calling again changes nothing.
DisabledAfter(t) ==
    LET r == simple_tp_update(t)
    IN  /\ r.rule = "disabled"
        /\ r.tp.curr_pos = t.curr_pos
        /\ r.tp.curr_vel = 0
        /\ r.tp.out_vel_old = 0
        /\ r.tp.pos_cmd = t.curr_pos
        /\ r.tp.in_pos_old = t.curr_pos
        /\ simple_tp_update(r.tp).tp = r.tp
C4_DisabledPath ==
    \A c \in Cmds : DisabledAfter(Written(tp, c, FALSE))

\* a disabled call has returned, off the limits and off the last command
C4_Witness ==
    /\ rule = "disabled"
    /\ ~tp.enable
    /\ tp.curr_vel = 0
    /\ tp.min_pos < tp.curr_pos
    /\ tp.curr_pos < tp.max_pos
    /\ \E c \in Cmds :
          /\ c # tp.curr_pos
          /\ simple_tp_update(Written(tp, c, FALSE)).tp = tp

\* C5: once the command is held at an in-bounds value with the channel
\* enabled and inside its limits, the channel eventually is and stays
\* inactive with curr_pos within tiny_dp of pos_cmd.
SettledNow == ~tp.active /\ Settled(tp)
C5_SettleConvergence == hold ~> []SettledNow

\* C6: after every call active is false exactly if
\* |curr_pos - pos_cmd| < tiny_dp.
C6_SettleDetection ==
    Called => (tp.active <=> ~Settled(tp))

\* C7: every enabled call commits through one rule of the cascade, leaving
\* in_pos_old equal to the call's pos_cmd and out_vel_old equal to curr_vel.
C7_AtomicCommit ==
    (Called /\ tp.enable) =>
        /\ rule # "fallthrough"
        /\ tp.in_pos_old = tp.pos_cmd
        /\ tp.out_vel_old = tp.curr_vel

\* the output matches the command and the command advances at the output's
\* velocity to an in-bounds position
Tracking(t) ==
    /\ t.enable
    /\ t.curr_pos = t.in_pos_old
    /\ t.pos_cmd = t.in_pos_old + t.out_vel_old * fperiod
    /\ fabs(t.out_vel_old) <= t.max_vel
    /\ t.min_pos <= t.pos_cmd
    /\ t.pos_cmd <= t.max_pos
\* rule 5 fires and commits the command and its velocity
TrackedAfter(t) ==
    LET r == simple_tp_update(t)
    IN  /\ r.rule = "r5"
        /\ r.tp.curr_pos = t.pos_cmd
        /\ r.tp.curr_vel = t.out_vel_old

\* C8 as stated: whenever the output matches a command that advances at a
\* constant in-limit velocity to an in-bounds position, rule 5 fires and
\* commits the command and its velocity.
C8_DirectTracking ==
    \A c \in Cmds :
        Tracking(Written(tp, c, TRUE)) => TrackedAfter(Written(tp, c, TRUE))

\* C8 amended: the same, provided neither stop-overshoot rule (1, 2) applies
\* to the pre-call state.
C8_DirectTrackingAmended ==
    \A c \in Cmds :
        LET t == Written(tp, c, TRUE)
        IN  (Tracking(t) /\ ~StopOvershootMax(t, vel_0_pos(t)) /\ ~StopOvershootMin(t, vel_0_pos(t)))
                => TrackedAfter(t)

\* a command moving at full speed has just been tracked, and its next
\* advance at the same velocity is tracked again
C8_Witness ==
    /\ rule = "r5"
    /\ tp.enable
    /\ tp.max_vel > 0
    /\ fabs(tp.out_vel_old) = tp.max_vel
    /\ \E c \in Cmds :
          LET t == Written(tp, c, TRUE)
          IN  /\ Tracking(t)
              /\ ~StopOvershootMax(t, vel_0_pos(t))
              /\ ~StopOvershootMin(t, vel_0_pos(t))
              /\ TrackedAfter(t)

\* C9: with disallow_backoff set, whenever a mismatch rule (6 or 7) fires it
\* commits the reachable extreme on the command's side: the minimum
\* candidate when curr_pos > pos_cmd, the maximum when curr_pos < pos_cmd.
CommandSideAfter(t) ==
    LET r == simple_tp_update(t)
    IN  r.rule \in MismatchRules =>
            /\ t.curr_pos > t.pos_cmd =>
                  (r.tp.curr_pos = min_pos(t) /\ r.tp.curr_vel = min_vel(t))
            /\ t.curr_pos < t.pos_cmd =>
                  (r.tp.curr_pos = max_pos(t) /\ r.tp.curr_vel = max_vel(t))
C9_NoBackoff ==
    \A c \in Cmds :
        tp.disallow_backoff => CommandSideAfter(Written(tp, c, TRUE))

\* an overshooting output has been held on the command's side
C9_Witness ==
    /\ tp.enable
    /\ tp.disallow_backoff
    /\ tp.max_vel > 0
    /\ rule \in {"r6hold", "r7hold"}

\* C10: in the scenario curr_pos never exceeds 50, |curr_vel| never exceeds
\* 10, the velocity never changes by more than 0.1 in a cycle, and the
\* channel eventually is and stays at curr_pos = 50 with curr_vel = 0.
ScenarioSafe ==
    /\ tp.curr_pos <= 500000
    /\ fabs(tp.curr_vel) <= 100
    /\ fabs(simple_tp_update(Written(tp, 1000000, TRUE)).tp.curr_vel
            - tp.out_vel_old) <= 1
ScenarioParked == tp.curr_pos = 500000 /\ tp.curr_vel = 0
C10_ScenarioMotion == []ScenarioSafe /\ <>[]ScenarioParked

\* C11 as stated: in the scenario the channel eventually is at rest at
\* max_pos = 50 with active false.
ScenarioParkedInactive == Called /\ ScenarioParked /\ ~tp.active
C11_ScenarioSettles == <>ScenarioParkedInactive

\* C11 amended: in the scenario active is true after every call, also once
\* the channel has come to rest at max_pos = 50 (the gap to pos_cmd = 100
\* stays 50, far above tiny_dp).
C11_ScenarioStaysActive == Called => tp.active

\* the park rule has just committed (max_pos, 0) and left active set
C11_Witness ==
    /\ rule = "r4park"
    /\ tp.curr_pos = tp.max_pos
    /\ tp.curr_vel = 0
    /\ tp.pos_cmd = 1000000
    /\ tp.active

\* C12: whenever the projected stop position is at or beyond max_pos and
\* (max_pos, 0) is not a valid next candidate, the enabled update exits
\* through rule 1 and commits the minimum reachable candidate
\* (curr_pos + min_vel * period, min_vel), whatever pos_cmd is; from
\* curr_pos = 49.95 at out_vel_old = 10 it commits velocity 9.9 and position
\* 49.9599.
AtApproach(t) ==
    /\ t.curr_pos = 499500
    /\ t.out_vel_old = 100
    /\ t.max_vel = 100
    /\ t.max_acc = 1
    /\ t.max_pos = 500000
StopOvershootAfter(t) ==
    LET r == simple_tp_update(t)
    IN  /\ StopOvershootMax(t, vel_0_pos(t)) =>
              /\ r.rule = "r1"
              /\ r.tp.curr_pos = t.curr_pos + min_vel(t) * fperiod
              /\ r.tp.curr_vel = min_vel(t)
        /\ AtApproach(t) =>
              /\ r.rule = "r1"
              /\ r.tp.curr_vel = 99
              /\ r.tp.curr_pos = 499599
C12_StopOvershootDominates ==
    \A c \in ApproachCmds : StopOvershootAfter(Written(tp, c, TRUE))

\* rule 1 has just committed (49.9599, 9.9) although the command written,
\* 49.96 reached at the output's own velocity, was a valid tracking
\* candidate
C12_Witness ==
    /\ rule = "r1"
    /\ tp.curr_pos = 499599
    /\ tp.curr_vel = 99
    /\ tp.pos_cmd = 499600
    /\ tp.in_pos_old = 499600

\* C13: whenever rules 1 and 2 do not fire and both limit-heading conditions
\* hold (the min-side condition of rule 3 and the max-side condition of rule
\* 4), the update commits rule 3's outcome: (min_pos, 0) if that is a valid
\* next state, else the minimum reachable candidate.
BothHeading(t) ==
    LET v0  == vel_0_pos(t)
        vmi == vel_match_in_pos(t)
        vmo == vel_match_out_pos(t)
    IN  /\ t.enable
        /\ ~StopOvershootMax(t, v0)
        /\ ~StopOvershootMin(t, v0)
        /\ \/ WLt(vmi, Scaled(t, t.min_pos))
           \/ /\ t.pos_cmd <= t.min_pos
              /\ WLt(vmi, vmo)
        /\ \/ WLt(Scaled(t, t.max_pos), vmi)
           \/ /\ t.pos_cmd >= t.max_pos
              /\ WLt(vmo, vmi)
MinSideAfter(t) ==
    LET r == simple_tp_update(t)
    IN  IF VALID_NEXT(t, t.min_pos, 0)
        THEN r.rule = "r3park" /\ r.tp.curr_pos = t.min_pos /\ r.tp.curr_vel = 0
        ELSE /\ r.rule = "r3head"
             /\ r.tp.curr_pos = min_pos(t)
             /\ r.tp.curr_vel = min_vel(t)
C13_MinSidePriority ==
    \A c \in Cmds :
        BothHeading(Written(tp, c, TRUE)) => MinSideAfter(Written(tp, c, TRUE))

\* a call has returned into a state where some command meets both
\* limit-heading conditions with the two outcomes different, and rule 3's is
\* the one committed
C13_Witness ==
    /\ Called
    /\ tp.min_pos < tp.max_pos
    /\ \E c \in Cmds :
          LET t == Written(tp, c, TRUE)
              r == simple_tp_update(t)
          IN  /\ BothHeading(t)
              /\ r.rule \in {"r3park", "r3head"}
              /\ r.tp.curr_pos < t.curr_pos
              /\ max_pos(t) > t.curr_pos

\* C14: a call never modifies enable, min_pos, max_pos, max_vel, max_acc or
\* disallow_backoff, and an enabled call never modifies pos_cmd; only
\* curr_pos, curr_vel, in_pos_old, out_vel_old and active are written (and
\* pos_cmd on the disabled path).
FrameAfter(t) ==
    LET r == simple_tp_update(t).tp
    IN  /\ DOMAIN r = DOMAIN t
        /\ r.enable = t.enable
        /\ r.min_pos = t.min_pos
        /\ r.max_pos = t.max_pos
        /\ r.max_vel = t.max_vel
        /\ r.max_acc = t.max_acc
        /\ r.disallow_backoff = t.disallow_backoff
        /\ t.enable => r.pos_cmd = t.pos_cmd
C14_Frame ==
    \A c \in Cmds : \A en \in BOOLEAN : FrameAfter(Written(tp, c, en))

\* an enabled call has moved the channel and left the command, which is not
\* where the channel is, as the host wrote it
C14_Witness ==
    /\ Called
    /\ tp.enable
    /\ rule \notin {"disabled", "fallthrough"}
    /\ tp.curr_vel # 0
    /\ tp.curr_pos # tp.pos_cmd
    /\ tp.in_pos_old = tp.pos_cmd
    /\ tp.active

\* C15: an enabled channel at curr_pos = max_pos with out_vel_old = 0 and
\* in_pos_old = pos_cmd >= max_pos is left there by an update with the same
\* command: it commits (max_pos, 0) and is parked in the same way again, so
\* it stays parked for as long as the command is held; symmetrically at
\* min_pos with pos_cmd <= min_pos.
ParkedMax(t) ==
    /\ t.enable
    /\ t.curr_pos = t.max_pos
    /\ t.out_vel_old = 0
    /\ t.in_pos_old = t.pos_cmd
    /\ t.pos_cmd >= t.max_pos
ParkedMin(t) ==
    /\ t.enable
    /\ t.curr_pos = t.min_pos
    /\ t.out_vel_old = 0
    /\ t.in_pos_old = t.pos_cmd
    /\ t.pos_cmd <= t.min_pos
C15_ParkingStable ==
    LET r == simple_tp_update(tp).tp
    IN  /\ ParkedMax(tp) =>
              (r.curr_pos = tp.max_pos /\ r.curr_vel = 0 /\ ParkedMax(r))
        /\ ParkedMin(tp) =>
              (r.curr_pos = tp.min_pos /\ r.curr_vel = 0 /\ ParkedMin(r))

\* the park rule has brought a channel that can move onto max_pos under a
\* command beyond it, and the next call with that command parks it again
C15_Witness ==
    /\ rule = "r4park"
    /\ ParkedMax(tp)
    /\ tp.pos_cmd > tp.max_pos
    /\ tp.max_vel > 0
    /\ simple_tp_update(tp).rule = "r4park"
    /\ simple_tp_update(tp).tp.curr_pos = tp.max_pos

\* the state seen in a mirror at position 0: positions and velocities
\* negated, the two limits swapped and negated
Mirror(t) ==
    [t EXCEPT !.curr_pos = -t.curr_pos,
              !.curr_vel = -t.curr_vel,
              !.out_vel_old = -t.out_vel_old,
              !.pos_cmd = -t.pos_cmd,
              !.in_pos_old = -t.in_pos_old,
              !.min_pos = -t.max_pos,
              !.max_pos = -t.min_pos]
\* the update of the mirrored state commits the negated position and
\* velocity, with the same active flag
MirroredAfter(t) ==
    \A r \in {simple_tp_update(t).tp} :
        \A m \in {simple_tp_update(Mirror(t)).tp} :
            /\ m.curr_pos = -r.curr_pos
            /\ m.curr_vel = -r.curr_vel
            /\ m.active = r.active

\* C16 as stated: for every enabled state with min_pos < max_pos the update
\* of the mirrored state commits the negation of the position and velocity
\* committed for the state itself, with the same active flag.
C16_MirrorSymmetry ==
    \A c \in Cmds :
        tp.min_pos < tp.max_pos => MirroredAfter(Written(tp, c, TRUE))

\* C16 amended: the same, except in the states where neither stop-overshoot
\* rule fires and both limit-heading conditions hold (there rule 3 wins for
\* the state and for its mirror alike).
C16_MirrorSymmetryAmended ==
    \A c \in Cmds :
        LET t == Written(tp, c, TRUE)
        IN  tp.min_pos < tp.max_pos => (MirroredAfter(t) \/ BothHeading(t))

\* a call has returned into a state from which some command sends the
\* channel towards max_pos through a max-side rule and its mirror image
\* towards min_pos through the min-side rule, at negated velocity
C16_Witness ==
    /\ Called
    /\ tp.min_pos < tp.max_pos
    /\ \E c \in Cmds :
          LET t == Written(tp, c, TRUE)
              r == simple_tp_update(t)
              m == simple_tp_update(Mirror(t))
          IN  /\ ~BothHeading(t)
              /\ r.rule \in {"r1", "r4head", "r6close", "r6back"}
              /\ m.rule \in {"r2", "r3head", "r7close", "r7back"}
              /\ r.tp.curr_vel # 0
              /\ m.tp.curr_vel = -r.tp.curr_vel
              /\ m.tp.curr_pos = -r.tp.curr_pos

\* ---- the update with the opposite tie-break: an exactly-zero velocity
\* (out_vel_old for out_dir, out_vel_old - in_vel for out_dir_rel) counts as
\* negative direction.  Everything else is as in simple_tp_update.
out_dir_neg(t) == IF t.out_vel_old <= 0 THEN -1 ELSE 1
out_dir_rel_neg(t) == IF t.out_vel_old - in_vel(t) <= 0 THEN -1 ELSE 1
vel_0_pos_neg(t) ==
    WAdd(WAdd(Scaled(t, t.curr_pos),
              WMul(2 * t.out_vel_old, vel_0_time(t) + t.max_acc * fperiod)),
         WMul((-out_dir_neg(t)) * vel_0_time(t), vel_0_time(t)))
vel_match_out_pos_neg(t) ==
    WAdd(WAdd(Scaled(t, t.curr_pos),
              WMul(2 * t.out_vel_old, vel_match_time(t) + t.max_acc * fperiod)),
         WMul((-out_dir_rel_neg(t)) * vel_match_time(t), vel_match_time(t)))
Cascade_neg(t) ==
    CascadeOn(t, vel_0_pos_neg(t), vel_match_in_pos(t), vel_match_out_pos_neg(t))
simple_tp_update_neg(t0) ==
    LET t == [t0 EXCEPT !.active = TRUE]
    IN  IF ~t.enable
        THEN LET d == [t EXCEPT !.pos_cmd = t.curr_pos]
             IN  Exit("disabled", SET_NEXT_STATE(d, d.curr_pos, 0, d.curr_pos))
        ELSE Cascade_neg(t)

\* the state is at a tie of one of the two direction signs
AtTie(t) == t.out_vel_old = 0 \/ t.out_vel_old = in_vel(t)
\* the two tie-breaks commit a different position or velocity
TieBreakDiffers(t) ==
    \E r \in {simple_tp_update(t).tp} :
        \E n \in {simple_tp_update_neg(t).tp} :
            r.curr_pos # n.curr_pos \/ r.curr_vel # n.curr_vel

\* an enabled state of the model's grid, with any remembered and any new
\* command
TieInput(pos, hi, v, a, dab, c, ip, ov) ==
    [Rest(pos, -PosLim, hi, v, a, dab)
        EXCEPT !.pos_cmd = c, !.in_pos_old = ip,
               !.out_vel_old = ov, !.curr_vel = ov]

\* C17 as stated: there is a state (the present state under some command, or
\* a state of the grid at a tie) for which the update with the opposite
\* tie-break (-1 at zero) commits a different position or velocity than
\* simple_tp_update does.
C17_TieBreakMatters ==
    \/ \E c \in Cmds : TieBreakDiffers(Written(tp, c, TRUE))
    \/ \E pos \in Cmds, hi \in 1..PosLim, v \in 0..VelLim, a \in 1..AccLim,
          dab \in BOOLEAN, c \in Cmds, ip \in Cmds, ov \in -VelLim..VelLim :
          /\ AtTie(TieInput(pos, hi, v, a, dab, c, ip, ov))
          /\ TieBreakDiffers(TieInput(pos, hi, v, a, dab, c, ip, ov))

\* C17 amended: the tie-break at exactly-zero velocity never matters: for
\* every state and command the update with the opposite tie-break commits
\* the same position and velocity as simple_tp_update.  (Off a tie the two
\* updates read the same signs, so only the states at a tie are compared.)
C17_TieBreakNeutral ==
    \A c \in Cmds :
        AtTie(Written(tp, c, TRUE)) => ~TieBreakDiffers(Written(tp, c, TRUE))

\* a call has brought the channel to rest off the limits, a state at the
\* out_dir tie, and some command also puts it at the out_dir_rel tie while
\* its cascade exits through a rule that reads a projection
C17_Witness ==
    /\ Called
    /\ tp.enable
    /\ tp.out_vel_old = 0
    /\ tp.max_vel > 0
    /\ tp.min_pos < tp.curr_pos
    /\ tp.curr_pos < tp.max_pos
    /\ \E c \in Cmds :
          LET t == Written(tp, c, TRUE)
          IN  /\ out_dir(t) # out_dir_neg(t)
              /\ out_dir_rel(t) # out_dir_rel_neg(t)
              /\ simple_tp_update(t).rule \in {"r3head", "r4head", "r6close", "r7close"}
              /\ simple_tp_update(t).tp = simple_tp_update_neg(t).tp
====
